---- MODULE Spec2Model ----
(***************************************************************************)
(* Workflow orchestration engine of scout-plan-build:                      *)
(*   - Git/PR finalizer      (adw_modules/git_ops.py)                      *)
(*   - phase pipeline        (adw_sdlc.py)                                 *)
(*   - workflow state store  (adw_modules/state.py)                        *)
(*   - run lifecycle tracker (agents/run_manager.py, adw_common.py)        *)
(* Each component has its own next-state relation and specification; the   *)
(* variables of the other components stay unchanged under it.              *)
(***************************************************************************)
EXTENDS Integers, Sequences, FiniteSets, TLC

VARIABLES
    \* ---- Git/PR finalizer ----
    vcsEnv,      \* environment of provider detection: VCS_PROVIDER, remote url, gh CLI
    prOpen,      \* an open change request exists at the provider for the branch
    created,     \* number of change requests created by finalize for the branch
    finCalls,    \* number of finalize_git_operations calls made so far
    fin,         \* what the last finalize_git_operations call did
    errors,      \* the dicts handle_error returned to callers that keep them, in order
    \* ---- phase pipeline (adw_sdlc.py) ----
    pc,          \* position of main() / run_parallel()
    parallel,    \* the --parallel flag
    child,       \* per phase: the child process (st, rc, flags)
    started,     \* the phases in the order their processes were started
    gitOps,      \* the git commands run by the orchestrator itself, with exit codes
    orchExit,    \* exit code of the orchestrator, None while it runs
    checkpoint,  \* the last phase that saved the workflow state and exited 0, None if none
    restarts,    \* number of times the orchestrator was started again after a crash
    resumeAfter, \* the checkpoint found on disk by the last restart
    \* ---- workflow state store (adw_modules/state.py) ----
    mem,         \* the ADWState instance held by the phase process (adw_id, data)
    disk,        \* per workflow id: content of agents/<id>/adw_state.json
    savePc,      \* "idle", or "writing" between open(path, "w") and the end of json.dump
    pending,     \* the save in progress: path, content before it, content it writes
    snap,        \* per path: the record written by the last completed save, while the file is as that save left it
    interrupted, \* per path: the save that a crash or write error cut short, if none completed since
    lastOp,      \* the last store operation: name, id, returned instance, raised exception
    ops,         \* number of store operations called so far
    pipe,        \* what the process finds on stdin / the last document written to stdout
    peers,       \* the phase processes run_parallel started: position, instance, update
    \* ---- run lifecycle tracker (agents/run_manager.py) ----
    today,       \* the day datetime.now() falls on
    runs,        \* agent_runs/: run_id -> the run directory (meta.yaml, state.json)
    latest,      \* target of the agent_runs/latest symlink, NoRun when there is none
    startSeq,    \* the run_id returned by each RunManager.start() call, in call order
    handle,      \* per handle: the RunManager instance a process holds (run_id, state)
    runOps,      \* number of tracker calls other than start() made so far
    asked,       \* per run_id: the statuses update_state() was called with
    startPc,     \* per process: its position inside a start() call, "idle" outside
    startRun,    \* per process: the run_id of the start() call in progress
    startErr     \* per process: the exception its last start() call raised, None if none

finVars == <<vcsEnv, prOpen, created, finCalls, fin, errors>>
restartVars == <<checkpoint, restarts, resumeAfter>>
orchVars == <<pc, parallel, child, started, gitOps, orchExit, restartVars>>

storeVars == <<mem, disk, savePc, pending, snap, interrupted, lastOp, ops, pipe, peers>>

linkVars == <<startPc, startRun, startErr>>
runVars == <<today, runs, latest, startSeq, handle, runOps, asked, linkVars>>

vars == <<finVars, orchVars, storeVars, runVars>>

None == "None"

\* ---------------------------------------------------------------------------
\* Bounds
\* ---------------------------------------------------------------------------
MaxFinalize == 2
MaxOps == 5
MaxStarts == 3
MaxDay == 2
HashSpace == 2

\* ---------------------------------------------------------------------------
\* The state of each component before it has done anything
\* ---------------------------------------------------------------------------
Phases == {"plan", "build", "test", "review", "document"}

NoCall == [branch |-> None, pushed |-> FALSE, pushRan |-> FALSE, pushError |-> None,
           pushRaised |-> None, provider |-> None, answer |-> None,
           pr_url |-> None, handled |-> FALSE, createInvoked |-> FALSE,
           createOk |-> FALSE, commented |-> FALSE, issue_number |-> None,
           apiError |-> FALSE, exit |-> None]

IdleFin ==
    /\ vcsEnv = [VCS_PROVIDER |-> "", remote |-> "github.com", gh |-> TRUE]
    /\ prOpen = FALSE
    /\ created = 0
    /\ finCalls = 0
    /\ fin = NoCall
    /\ errors = <<>>

NoChild == [st |-> "none", rc |-> None, flags |-> {}]

IdleOrch ==
    /\ pc = "init"
    /\ parallel = FALSE
    /\ child = [p \in Phases |-> NoChild]
    /\ started = <<>>
    /\ gitOps = <<>>
    /\ orchExit = None
    /\ checkpoint = None
    /\ restarts = 0
    /\ resumeAfter = None

\* The five whitelisted fields (state.py line 50)
core_fields == {"adw_id", "issue_number", "branch_name", "plan_file", "issue_class"}

Ids == {"A", "B"}

\* Content of a state file: absent, or text that is truncated (empty or a
\* prefix of a document), not JSON at all, a JSON value that is no object, or a
\* JSON object (body: the encoded value of each key, <<"null">> when the key
\* is null or missing).
NullBody == [f \in core_fields |-> <<"null">>]
Absent == [kind |-> "absent", body |-> NullBody]
Truncated == [kind |-> "truncated", body |-> NullBody]
Garbage == [kind |-> "garbage", body |-> NullBody]
NonObject == [kind |-> "list", body |-> NullBody]
Document(body) == [kind |-> "object", body |-> body]

NoData == [f \in core_fields |-> None]
\* The entries of self.data under keys outside the whitelist: none
NoExtra == [k \in {} |-> None]
NoInstance == [adw_id |-> None, data |-> NoData, extra |-> NoExtra]
\* update() called with no keyword argument; other operations take none
NoKwargs == [k \in {} |-> None]
NoSnap == [ok |-> FALSE, data |-> NoData]
NoSave == [on |-> FALSE, path |-> None, old |-> Absent, new |-> Absent]
\* stdin is a terminal: nothing is piped in
Tty == [kind |-> "tty", body |-> NullBody, extra |-> NoExtra]
\* The phase processes that share one workflow state in concurrent mode
PeerProcs == {"review", "document"}
NoPeer == [pc |-> "start", mem |-> NoInstance, field |-> None, value |-> None, raised |-> None]
NoOp == [op |-> "none", kwargs |-> NoKwargs, id |-> None, result |-> NoInstance, raised |-> None]

IdleStore ==
    /\ mem = NoInstance
    /\ disk = [i \in Ids |-> Absent]
    /\ savePc = "idle"
    /\ pending = NoSave
    /\ snap = [i \in Ids |-> NoSnap]
    /\ interrupted = [i \in Ids |-> NoSave]
    /\ lastOp = NoOp
    /\ ops = 0
    /\ pipe = Tty
    /\ peers = [p \in PeerProcs |-> NoPeer]

\* A run id is text; NoRun stands for "no run id" (None)
NoRun == <<>>

\* RunState_Data(): the mutable state a new run starts with
InitialRunState ==
    [status |-> "ACTIVE", progress |-> 0, last_heartbeat |-> None, completed_at |-> None,
     error |-> None, output_path |-> None, artifacts |-> <<>>]

\* Two processes, each with one variable that holds a RunManager instance
Handles == {"h1", "h2"}

\* A variable holding no instance (None)
NoHandle == [run_id |-> NoRun, state |-> InitialRunState]

IdleRun ==
    /\ today = 1
    /\ runs = <<>>
    /\ latest = NoRun
    /\ startSeq = <<>>
    /\ handle = [h \in Handles |-> NoHandle]
    /\ runOps = 0
    /\ asked = <<>>
    /\ startPc = [p \in Handles |-> "idle"]
    /\ startRun = [p \in Handles |-> NoRun]
    /\ startErr = [p \in Handles |-> None]

\* ===========================================================================
\* Git/PR finalizer
\* ===========================================================================

Branch == "feature/x"

BranchNames == {Branch, "main", "master", "HEAD", "feature;rm", "/feature"}

\* str.lower() on the strings the model uses
Lower(s) ==
    CASE s = "GitHub" -> "github"
      [] s = "BITBUCKET" -> "bitbucket"
      [] s = "HEAD" -> "head"
      [] OTHER -> s

EnvProviders == {"", "GitHub", "BITBUCKET", "gitlab"}
RemoteUrls == {"github.com", "bitbucket.org", "example.org", "CalledProcessError"}

\* detect_vcs_provider that looks at the git remote before the environment
detect_remote_first(env) ==
    IF env.remote = "github.com" THEN "github"
    ELSE IF env.remote = "bitbucket.org" THEN "bitbucket"
    ELSE IF Lower(env.VCS_PROVIDER) \in {"github", "bitbucket"} THEN Lower(env.VCS_PROVIDER)
    ELSE IF env.gh THEN "github"
    ELSE "VCSDetectionError"

\* vcs_detection.detect_vcs_provider, lines 58-97: the VCS_PROVIDER override
\* in lower case, then the remote URL, then `gh --version`, else the error
detect_vcs_provider(env) ==
    IF Lower(env.VCS_PROVIDER) \in {"github", "bitbucket"} THEN Lower(env.VCS_PROVIDER)
    ELSE IF env.remote = "github.com" THEN "github"
    ELSE IF env.remote = "bitbucket.org" THEN "bitbucket"
    ELSE IF env.gh THEN "github"
    ELSE "VCSDetectionError"

\* git_ops.check_pr_exists: the provider whose lookup is used
lookup_provider(env) ==
    IF detect_vcs_provider(env) = "VCSDetectionError" THEN "github"
    ELSE detect_vcs_provider(env)

\* validators.SafeGitBranch, lines 158-162: the field's pattern
\* ^[a-zA-Z0-9\-_/]+$ on BranchNames (";" is outside the character class)
branch_pattern(b) == b \notin {"feature;rm"}

\* validators.SafeGitBranch.validate_branch_name, lines 169-171: a name may
\* not start or end with "/", "-" or "_"
branch_edges(b) == b \notin {"/feature"}

\* validators.validate_branch_name on BranchNames: the field pattern, the
\* edge characters and the reserved names (compared in lower case)
validate_branch_name(b) ==
    /\ branch_pattern(b)
    /\ branch_edges(b)
    /\ Lower(b) \notin {"head", "master", "main"}

\* push_branch with only the two named except clauses (lines 72-75)
push_catches_named(exc) == exc \in {"ValidationError", "GitOperationError"}

\* push_branch, lines 72-78: `except ValidationError` is the class of
\* adw_modules.exceptions, `except GitOperationError`, then `except Exception`
\* which catches everything else (pydantic's ValidationError, OSError).
push_catches(exc) == TRUE

\* git_ops.push_branch(branch_name): the branch name is validated, git push is
\* run only with a validated name, and every exception becomes (False, message).
\* success/error are the returned pair, ran says whether git push was run,
\* raised is the exception that leaves the function.
push_branch(branch_name, push_ok) ==
    LET valid == validate_branch_name(branch_name)
        exc == IF ~valid THEN "pydantic.ValidationError"
               ELSE IF ~push_ok THEN "GitOperationError"
               ELSE None
    IN [success |-> exc = None,
        ran |-> valid,
        error |-> IF exc # None /\ push_catches(exc) THEN exc ELSE None,
        raised |-> IF exc # None /\ ~push_catches(exc) THEN exc ELSE None]

\* What the provider (or the transport to it) answers to the lookup.
GithubAnswers == {"Found", "NotFound", "NoPullRequestsStderr",
                  "RepoInfoError", "CalledProcessError", "JSONDecodeError"}
BitbucketAnswers == {"Found", "NotFound", "RequestException"}

\* The tri-state of section 4.4 the answer stands for.
Outcome(answer) ==
    CASE answer = "Found" -> "Found"
      [] answer \in {"NotFound", "NoPullRequestsStderr"} -> "NotFound"
      [] OTHER -> "LookupFailed"

\* The answers the provider can give in the current state.
Answers(provider, open) ==
    {a \in (IF provider = "github" THEN GithubAnswers ELSE BitbucketAnswers) :
        \/ Outcome(a) = "LookupFailed"
        \/ Outcome(a) = "Found" /\ open
        \/ Outcome(a) = "NotFound" /\ ~open}

\* git_ops._check_pr_github: a url, None, or a raised GitHubAPIError
_check_pr_github(answer) ==
    CASE answer = "Found" -> "url"
      [] answer \in {"NotFound", "NoPullRequestsStderr"} -> None
      [] OTHER -> "GitHubAPIError"

\* git_ops._check_pr_bitbucket: a url or None; every exception is swallowed
_check_pr_bitbucket(answer) ==
    CASE answer = "Found" -> "url"
      [] OTHER -> None

\* git_ops.check_pr_exists
check_pr_exists(env, answer) ==
    IF lookup_provider(env) = "github" THEN _check_pr_github(answer)
    ELSE _check_pr_bitbucket(answer)

\* finalize_git_operations, lines 311-332: the branch to publish, or None
\* when the call returns early (handle_error was called).
resolve_branch(branch_name, current_branch) ==
    IF branch_name # None THEN branch_name
    ELSE IF current_branch \notin {"GitOperationError", "", "main"} THEN current_branch
    ELSE None

\* should_create without the `if issue_number:` test
should_create_any(pr_url, issue_number, fetch_ok) ==
    /\ pr_url = None
    /\ fetch_ok

\* should_create without the `if pr_url:` short-circuit
should_create_mut(pr_url, issue_number, fetch_ok) ==
    /\ issue_number # None
    /\ fetch_ok

\* finalize_git_operations, lines 353/364-383: create_pull_request is reached
should_create(pr_url, issue_number, fetch_ok) ==
    /\ pr_url = None
    /\ issue_number # None
    /\ fetch_ok

\* adw_build.run_github_mode, lines 482-494: finalize_git_operations returns
\* None whatever happened in it, the state is saved and 0 is returned to
\* sys.exit; an exception raised by save() ends the process with status 1.
run_github_mode_exit(save_ok) == IF save_ok THEN 0 ELSE 1

\* One call of finalize_git_operations(state, logger), and the exit of the
\* phase process that made it.
Finalize(branch_name, current_branch, issue_number, push_ok, answer, fetch_ok, create_ok, comment_ok, save_ok) ==
    /\ finCalls < MaxFinalize
    /\ finCalls' = finCalls + 1
    /\ UNCHANGED <<vcsEnv, errors, orchVars, storeVars, runVars>>
    /\ LET b == resolve_branch(branch_name, current_branch)
           push == IF b # None THEN push_branch(b, push_ok)
                   ELSE [success |-> FALSE, ran |-> FALSE, error |-> None, raised |-> None]
           pushed == push.success
           ret == IF pushed THEN check_pr_exists(vcsEnv, answer) ELSE None
           looked == pushed
           create == pushed /\ ret # "GitHubAPIError" /\ should_create(ret, issue_number, fetch_ok)
           newurl == create /\ create_ok
           url == IF ~pushed \/ ret = "GitHubAPIError" THEN None
                  ELSE IF ret # None THEN ret
                  ELSE IF newurl THEN "url" ELSE None
       IN /\ fin' = [branch |-> b,
                     pushed |-> pushed,
                     pushRan |-> push.ran,
                     pushError |-> push.error,
                     pushRaised |-> push.raised,
                     provider |-> IF looked THEN lookup_provider(vcsEnv) ELSE None,
                     answer |-> IF looked THEN answer ELSE None,
                     pr_url |-> IF looked THEN ret ELSE None,
                     handled |-> \/ b = None
                                 \/ looked /\ ret = "GitHubAPIError"
                                 \/ looked /\ ret = None /\ issue_number # None /\ ~fetch_ok,
                     createInvoked |-> create,
                     createOk |-> newurl,
                     commented |-> url # None /\ issue_number # None /\ comment_ok,
                     issue_number |-> issue_number,
                     apiError |-> \/ looked /\ Outcome(answer) = "LookupFailed"
                                  \/ create /\ ~create_ok,
                     exit |-> run_github_mode_exit(save_ok)]
          /\ created' = IF newurl /\ b = Branch THEN created + 1 ELSE created
          /\ prOpen' = (prOpen \/ (newurl /\ b = Branch))

\* The inputs of one call; an input the call never reads is held at one value.
FinalizeCall ==
    \E branch_name \in {None, Branch, "main"},
       current_branch \in BranchNames \cup {"GitOperationError"},
       push_ok \in BOOLEAN, save_ok \in BOOLEAN :
      /\ branch_name # None => current_branch = Branch
      /\ LET b == resolve_branch(branch_name, current_branch)
         IN (b = None \/ ~validate_branch_name(b)) => push_ok
      /\ \E issue_number \in {None, "7"},
            fetch_ok \in BOOLEAN, create_ok \in BOOLEAN, comment_ok \in BOOLEAN :
           /\ issue_number = None => (fetch_ok /\ create_ok /\ comment_ok)
           /\ ~fetch_ok => create_ok
           /\ LET b == resolve_branch(branch_name, current_branch)
              IN (b = None \/ ~validate_branch_name(b) \/ ~push_ok) =>
                    (fetch_ok /\ create_ok /\ comment_ok)
           /\ LET b == resolve_branch(branch_name, current_branch)
                  lookedUp == b # None /\ validate_branch_name(b) /\ push_ok
              IN \E answer \in (IF lookedUp THEN Answers(lookup_provider(vcsEnv), prOpen)
                                 ELSE {None}) :
                    Finalize(branch_name, current_branch, issue_number, push_ok, answer,
                             fetch_ok, create_ok, comment_ok, save_ok)

InitFin ==
    /\ IdleOrch
    /\ IdleRun
    /\ IdleStore
    /\ vcsEnv \in [VCS_PROVIDER : EnvProviders, remote : RemoteUrls, gh : BOOLEAN]
    /\ prOpen \in BOOLEAN
    /\ created = 0
    /\ finCalls = 0
    /\ fin = NoCall
    /\ errors = <<>>

NextFin == FinalizeCall

SpecFin == InitFin /\ [][NextFin]_vars

C23_ProviderPrecedence ==
    (finCalls > 0 /\ fin.pushed) =>
        /\ vcsEnv.VCS_PROVIDER = "GitHub" => fin.provider = "github"
        /\ vcsEnv.VCS_PROVIDER = "BITBUCKET" => fin.provider = "bitbucket"
        /\ vcsEnv.VCS_PROVIDER \in {"", "gitlab"} =>
              /\ vcsEnv.remote = "github.com" => fin.provider = "github"
              /\ vcsEnv.remote = "bitbucket.org" => fin.provider = "bitbucket"
              /\ vcsEnv.remote \in {"example.org", "CalledProcessError"} =>
                    /\ vcsEnv.gh => detect_vcs_provider(vcsEnv) = "github"
                    /\ ~vcsEnv.gh => detect_vcs_provider(vcsEnv) = "VCSDetectionError"
                    /\ fin.provider = "github"
                    /\ fin.answer \in GithubAnswers

C23_Witness ==
    /\ finCalls > 0
    /\ fin.pushed
    /\ vcsEnv.VCS_PROVIDER = "BITBUCKET"
    /\ vcsEnv.remote = "github.com"
    /\ fin.provider = "bitbucket"
    /\ fin.answer \in BitbucketAnswers

\* ---------------------------------------------------------------------------
\* Central error handler (exceptions.py)
\* ---------------------------------------------------------------------------
MaxErrors == 2

\* exceptions.py: ADWError and its ten subclasses (each a direct subclass)
ErrorClasses == {"ADWError", "ValidationError", "StateError", "GitOperationError",
                 "GitHubAPIError", "AgentError", "WorkflowError", "TokenLimitError",
                 "RateLimitError", "EnvironmentError", "FileSystemError"}

\* handle_error, lines 414-428: the isinstance chain that sets severity
severity(error) ==
    IF error \in {"TokenLimitError", "RateLimitError"} THEN "warning" ELSE "error"

\* handle_error, lines 414-428: the isinstance chain that sets recoverable;
\* the else branch ("System/workflow failures") takes every other class
recoverable(error) ==
    IF error \in {"TokenLimitError", "RateLimitError"} THEN TRUE
    ELSE IF error \in {"ValidationError", "EnvironmentError"} THEN FALSE
    ELSE TRUE

\* handle_error(error, logger, issue_number, adw_id): the returned dict;
\* commented says whether the error was posted to the issue (lines 431-443,
\* a failing post is swallowed)
handle_error(error, issue_number, adw_id, comment_ok) ==
    [error_type |-> error,
     severity |-> severity(error),
     recoverable |-> recoverable(error),
     commented |-> issue_number # None /\ adw_id # None /\ comment_ok]

\* One call of handle_error by a caller that keeps the result.
HandleError(error, issue_number, adw_id, comment_ok) ==
    /\ Len(errors) < MaxErrors
    /\ errors' = Append(errors, handle_error(error, issue_number, adw_id, comment_ok))
    /\ UNCHANGED <<vcsEnv, prOpen, created, finCalls, fin, orchVars, storeVars, runVars>>

NextErr ==
    \E error \in ErrorClasses, issue_number \in {None, "7"}, adw_id \in {None, "A"},
       comment_ok \in BOOLEAN :
        /\ (issue_number = None \/ adw_id = None) => comment_ok
        /\ HandleError(error, issue_number, adw_id, comment_ok)

InitErr ==
    /\ IdleFin
    /\ IdleOrch
    /\ IdleStore
    /\ IdleRun

SpecErr == InitErr /\ [][NextErr]_vars

\* C26: the error handler classifies input/configuration validation errors
\* and filesystem errors as not recoverable and rate-limit and resource-limit
\* errors as recoverable, and the classification depends only on the class.
C26_Classification ==
    \A i \in 1..Len(errors) :
        /\ errors[i].error_type \in {"ValidationError", "EnvironmentError", "FileSystemError"} =>
              ~errors[i].recoverable
        /\ errors[i].error_type \in {"RateLimitError", "TokenLimitError"} =>
              errors[i].recoverable
        /\ \A j \in 1..Len(errors) :
              errors[j].error_type = errors[i].error_type =>
                 errors[j].recoverable = errors[i].recoverable

\* ===========================================================================
\* Phase pipeline orchestrator (adw_sdlc.py)
\* ===========================================================================

PhaseOrder == <<"plan", "build", "test", "review", "document">>
ParallelPhases == {"test", "review", "document"}

\* Exit codes of a child: 0, a sys.exit(1), or death by a signal (negative).
ExitCodes == {0, 1, -15}
GitExitCodes == {0, 1}

\* subprocess.run(cmd) / subprocess.Popen(cmd): the child process is started
Spawn(p, flags) ==
    /\ child' = [child EXCEPT ![p] = [st |-> "running", rc |-> None, flags |-> flags]]
    /\ started' = Append(started, p)

\* sys.exit(code), or main() returning (code 0)
Exit(code) ==
    /\ pc' = "exited"
    /\ orchExit' = code

\* phase_flags that starts the phases as the serial mode does
phase_flags_serial(p, par) ==
    CASE p = "test" -> {"--skip-e2e"}
      [] OTHER -> {}

\* adw_sdlc.py: the flags each phase is started with
phase_flags(p, par) ==
    CASE p = "test" -> IF par THEN {"--no-commit", "--skip-e2e"} ELSE {"--skip-e2e"}
      [] p \in {"review", "document"} -> IF par THEN {"--no-commit"} ELSE {}
      [] OTHER -> {}

\* A phase process ends, with any exit code (it is an independent OS process).
\* A phase that exits 0 has saved the workflow state last (adw_build.py,
\* lines 491-494): its checkpoint.
ChildExit(p, rc) ==
    /\ child[p].st = "running"
    /\ child' = [child EXCEPT ![p].st = "exited", ![p].rc = rc]
    /\ checkpoint' = IF rc = 0 THEN p ELSE checkpoint
    /\ UNCHANGED <<pc, parallel, started, gitOps, orchExit, restarts, resumeAfter,
                   finVars, storeVars, runVars>>

\* main(), lines 90-127: argument check, then the plan phase is started
MainStart(args_ok, par) ==
    /\ pc = "init"
    /\ parallel' = par
    /\ IF ~args_ok
       THEN Exit(1) /\ UNCHANGED <<child, started>>
       ELSE /\ Spawn("plan", phase_flags("plan", par))
            /\ pc' = "wait_plan"
            /\ UNCHANGED orchExit
    /\ UNCHANGED <<gitOps, restartVars, finVars, storeVars, runVars>>

\* adw_sdlc.py: what follows a phase that exited 0 ("end": main() returns,
\* "parallel": run_parallel() is entered)
next_phase(p, par) ==
    CASE p = "plan" -> "build"
      [] p = "build" -> IF par THEN "parallel" ELSE "test"
      [] p = "test" -> "review"
      [] p = "review" -> "document"
      [] OTHER -> "end"

\* phase_failed as `returncode > 0`: a child killed by a signal passes
phase_failed_mut(returncode) == returncode > 0

\* main(): `if plan.returncode != 0` (lines 128, 143, 167, 182, 197)
phase_failed(returncode) == returncode # 0

\* main(): subprocess.run(<phase>) has returned; `if returncode != 0: sys.exit(1)`,
\* otherwise the next step of main() (lines 127-199)
PhaseDone(p) ==
    /\ pc = "wait_" \o p
    /\ child[p].st = "exited"
    /\ LET nxt == next_phase(p, parallel)
       IN IF phase_failed(child[p].rc)
          THEN Exit(1) /\ UNCHANGED <<child, started>>
          ELSE IF nxt = "end"
          THEN Exit(0) /\ UNCHANGED <<child, started>>
          ELSE IF nxt = "parallel"
          THEN /\ Spawn("test", phase_flags("test", TRUE))
               /\ pc' = "popen_review"
               /\ UNCHANGED orchExit
          ELSE /\ Spawn(nxt, phase_flags(nxt, parallel))
               /\ pc' = "wait_" \o nxt
               /\ UNCHANGED orchExit
    /\ UNCHANGED <<parallel, gitOps, restartVars, finVars, storeVars, runVars>>

\* run_parallel(), lines 44-54: Popen of review, then of document
PopenReview ==
    /\ pc = "popen_review"
    /\ Spawn("review", phase_flags("review", TRUE))
    /\ pc' = "popen_document"
    /\ UNCHANGED <<parallel, gitOps, orchExit, restartVars, finVars, storeVars, runVars>>

PopenDocument ==
    /\ pc = "popen_document"
    /\ Spawn("document", phase_flags("document", TRUE))
    /\ pc' = "pwait_test"
    /\ UNCHANGED <<parallel, gitOps, orchExit, restartVars, finVars, storeVars, runVars>>

\* run_parallel(), lines 58-59: test_proc.wait(), review_proc.wait()
WaitTest ==
    /\ pc = "pwait_test"
    /\ child["test"].st = "exited"
    /\ pc' = "pwait_review"
    /\ UNCHANGED <<parallel, child, started, gitOps, orchExit, restartVars, finVars, storeVars, runVars>>

WaitReview ==
    /\ pc = "pwait_review"
    /\ child["review"].st = "exited"
    /\ pc' = "pwait_document"
    /\ UNCHANGED <<parallel, child, started, gitOps, orchExit, restartVars, finVars, storeVars, runVars>>

\* any_failed that forgets the document phase
any_failed_mut(test_result, review_result, document_result) ==
    test_result # 0 \/ review_result # 0

\* run_parallel(), line 63: any(r != 0 for r in [test, review, document])
any_failed(test_result, review_result, document_result) ==
    test_result # 0 \/ review_result # 0 \/ document_result # 0

\* run_parallel(), lines 60-68 and main() 151-153: document_proc.wait(), then
\* the check of the three results
WaitDocument ==
    /\ pc = "pwait_document"
    /\ child["document"].st = "exited"
    /\ IF any_failed(child["test"].rc, child["review"].rc, child["document"].rc)
       THEN Exit(1)
       ELSE pc' = "git_add" /\ UNCHANGED orchExit
    /\ UNCHANGED <<parallel, child, started, gitOps, restartVars, finVars, storeVars, runVars>>

\* run_parallel(), lines 72-82: subprocess.run of git add / commit / push;
\* the exit code of none of them is read
GitAdd(rc) ==
    /\ pc = "git_add"
    /\ gitOps' = Append(gitOps, [cmd |-> "add", rc |-> rc])
    /\ pc' = "git_commit"
    /\ UNCHANGED <<parallel, child, started, orchExit, restartVars, finVars, storeVars, runVars>>

GitCommit(rc) ==
    /\ pc = "git_commit"
    /\ gitOps' = Append(gitOps, [cmd |-> "commit", rc |-> rc])
    /\ pc' = "git_push"
    /\ UNCHANGED <<parallel, child, started, orchExit, restartVars, finVars, storeVars, runVars>>

\* ... and run_parallel() returns True, main() returns (lines 84-85, 201-202)
GitPush(rc) ==
    /\ pc = "git_push"
    /\ gitOps' = Append(gitOps, [cmd |-> "push", rc |-> rc])
    /\ Exit(0)
    /\ UNCHANGED <<parallel, child, started, restartVars, finVars, storeVars, runVars>>

NextOrch ==
    \/ \E args_ok \in BOOLEAN, par \in BOOLEAN : MainStart(args_ok, par)
    \/ \E p \in Phases, rc \in ExitCodes : ChildExit(p, rc)
    \/ \E p \in Phases : PhaseDone(p)
    \/ PopenReview
    \/ PopenDocument
    \/ WaitTest
    \/ WaitReview
    \/ WaitDocument
    \/ \E rc \in GitExitCodes : GitAdd(rc)
    \/ \E rc \in GitExitCodes : GitCommit(rc)
    \/ \E rc \in GitExitCodes : GitPush(rc)

InitOrch ==
    /\ IdleOrch
    /\ IdleRun
    /\ IdleFin
    /\ IdleStore

SpecOrch == InitOrch /\ [][NextOrch]_vars

\* The steps of the orchestrator process itself. A started process that can
\* take its next step is scheduled to take it; whether and when a child
\* process exits is up to the child, and wait() (lines 58-60) sets no limit.
OrchStep ==
    \/ \E args_ok \in BOOLEAN, par \in BOOLEAN : MainStart(args_ok, par)
    \/ \E p \in Phases : PhaseDone(p)
    \/ PopenReview
    \/ PopenDocument
    \/ WaitTest
    \/ WaitReview
    \/ WaitDocument
    \/ \E rc \in GitExitCodes : GitAdd(rc)
    \/ \E rc \in GitExitCodes : GitCommit(rc)
    \/ \E rc \in GitExitCodes : GitPush(rc)

SpecOrchFair == InitOrch /\ [][NextOrch]_vars /\ WF_vars(OrchStep)

\* ---------------------------------------------------------------------------
\* Crash of the orchestrator and its restart with the same workflow id
\* ---------------------------------------------------------------------------

MaxRestarts == 1

\* The orchestrator is killed while it runs; its process group (the phase
\* processes it waits for) dies with it.
OrchCrash ==
    /\ pc \notin {"init", "exited", "crashed"}
    /\ pc' = "crashed"
    /\ orchExit' = -15
    /\ child' = [p \in Phases |->
                   IF child[p].st = "running"
                   THEN [child[p] EXCEPT !.st = "exited", !.rc = -15]
                   ELSE child[p]]
    /\ UNCHANGED <<parallel, started, gitOps, restartVars, finVars, storeVars, runVars>>

\* adw_sdlc.py is run again with the same arguments: main(), lines 90-127,
\* in a new process. It reads no saved state; the first phase it starts is plan.
Restart ==
    /\ pc = "crashed"
    /\ restarts < MaxRestarts
    /\ restarts' = restarts + 1
    /\ resumeAfter' = checkpoint
    /\ child' = [p \in Phases |->
                   IF p = "plan"
                   THEN [st |-> "running", rc |-> None, flags |-> phase_flags("plan", parallel)]
                   ELSE NoChild]
    /\ started' = <<"plan">>
    /\ gitOps' = <<>>
    /\ orchExit' = None
    /\ pc' = "wait_plan"
    /\ UNCHANGED <<parallel, checkpoint, finVars, storeVars, runVars>>

NextRestart ==
    \/ NextOrch
    \/ OrchCrash
    \/ Restart

SpecRestart == InitOrch /\ [][NextRestart]_vars

\* ===========================================================================
\* Workflow state store (adw_modules/state.py)
\* ===========================================================================

\* The values update() is called with
IdValues == {None, "", "A", "B"}
FieldValues(f) ==
    CASE f = "adw_id" -> IdValues
      [] f = "issue_number" -> {None, "7"}
      [] f = "branch_name" -> {None, "feature/x"}
      [] f = "plan_file" -> {None, "specs/plan.md"}
      [] f = "issue_class" -> {None, "/feature"}
      [] OTHER -> {"initialized"}

\* A key outside the whitelist, as adw_fix_dependencies.main passes it:
\* state.update(status="initialized", ...)
UnknownKeys == {"status"}

\* json.dump / json.load of one value: None <-> null, a str <-> a JSON string
json_encode(v) == IF v = None THEN <<"null">> ELSE <<"str", v>>
json_decode(e) == IF e[1] = "null" THEN None ELSE e[2]

\* json.dump(state_data.model_dump(), f): the document text
json_dump(data) == [f \in core_fields |-> json_encode(data[f])]

\* ADWState.__init__ without the two checks of its argument
ADWState_unchecked(adw_id) ==
    [raised |-> None, field |-> None,
     state |-> [adw_id |-> adw_id,
                data |-> [f \in core_fields |-> IF f = "adw_id" THEN adw_id ELSE None],
                extra |-> NoExtra]]

\* ADWState.__init__, lines 30-44; the ValidationError is the string result,
\* field is the `field=` argument it is raised with
ADWState(adw_id) ==
    IF adw_id = None \/ adw_id = ""
    THEN [raised |-> "ValidationError", field |-> "adw_id", state |-> NoInstance]
    ELSE [raised |-> None, field |-> None,
          state |-> [adw_id |-> adw_id,
                     data |-> [f \in core_fields |-> IF f = "adw_id" THEN adw_id ELSE None],
                     extra |-> NoExtra]]

\* update_keys that lets every keyword argument through
update_keys_mut(kwargs) == DOMAIN kwargs

\* The keys update() stores: `if key in core_fields` (line 52)
update_keys(kwargs) == DOMAIN kwargs \cap core_fields

\* ADWState.update, lines 47-53: self.data[key] = value for the keys let through
update(state, kwargs) ==
    LET keys == update_keys(kwargs)
    IN [state EXCEPT
          !.data = [f \in core_fields |-> IF f \in keys THEN kwargs[f] ELSE @[f]],
          !.extra = [k \in DOMAIN @ \cup (keys \ core_fields) |->
                        IF k \in keys THEN kwargs[k] ELSE @[k]]]

\* ADWState.get: self.data.get(key, default)
get(state, key) ==
    IF key \in core_fields THEN state.data[key]
    ELSE IF key \in DOMAIN state.extra THEN state.extra[key]
    ELSE None

\* adw_modules.data_types.ADWStateData: the schema check; workflow_id is
\* required and non-empty, the other four fields are optional.
ADWStateData_valid(data) == data["adw_id"] # None /\ data["adw_id"] # ""

\* ADWStateData.model_dump(): the five fields, each None when unset
model_dump(data) == [f \in core_fields |-> data[f]]

\* The exception raised inside the try block of load (lines 138-153), or None
load_exception(content) ==
    CASE content.kind \in {"truncated", "garbage"} -> "JSONDecodeError"
      [] content.kind = "list" -> "TypeError"
      [] ~ADWStateData_valid([f \in core_fields |-> json_decode(content.body[f])])
            -> "pydantic.ValidationError"
      [] OTHER -> ADWState(json_decode(content.body["adw_id"])).raised

\* load_catches without the final `except Exception`
load_catches_mut(exc) ==
    \/ exc = "ValidationError"
    \/ exc \in {"FileSystemError", "JSONDecodeError"}

\* The except clauses of load (lines 154-165): the exceptions they catch
load_catches(exc) ==
    \/ exc = "ValidationError"
    \/ exc \in {"FileSystemError", "JSONDecodeError"}
    \/ exc \in {"TypeError", "pydantic.ValidationError", "OSError"}   \* except Exception

\* ADWState.load, lines 118-165: the returned instance (NoInstance for None)
\* and the exception that leaves the call
load(content) ==
    IF content.kind = "absent" THEN [result |-> NoInstance, raised |-> None]
    ELSE LET exc == load_exception(content)
             data == [f \in core_fields |-> json_decode(content.body[f])]
         IN IF exc # None
            THEN [result |-> NoInstance, raised |-> IF load_catches(exc) THEN None ELSE exc]
            ELSE [result |-> [adw_id |-> data["adw_id"], data |-> model_dump(data),
                              extra |-> NoExtra],
                  raised |-> None]

\* save_document that leaves issue_class out of the record it builds
save_document_mut(state) ==
    Document(json_dump(model_dump([state.data EXCEPT !["issue_class"] = None])))

\* The document save() writes (lines 87-105)
save_document(state) == Document(json_dump(model_dump(state.data)))

\* The path save() writes to: get_state_path() uses self.adw_id (line 64)
save_path(state) == state.adw_id

\* A store operation is called (the model follows MaxOps calls)
Call ==
    /\ ops < MaxOps
    /\ ops' = ops + 1

Create(adw_id) ==
    /\ Call
    /\ savePc = "idle"
    /\ LET r == ADWState(adw_id)
       IN /\ mem' = IF r.raised = None THEN r.state ELSE mem
          /\ lastOp' = [op |-> "create", kwargs |-> NoKwargs, id |-> adw_id, result |-> r.state, raised |-> r.raised]
    /\ UNCHANGED <<disk, savePc, pending, snap, interrupted, pipe, peers, finVars, orchVars, runVars>>

Update(kwargs) ==
    /\ Call
    /\ savePc = "idle"
    /\ mem # NoInstance
    /\ mem' = update(mem, kwargs)
    /\ lastOp' = [op |-> "update", kwargs |-> kwargs, id |-> mem.adw_id, result |-> NoInstance, raised |-> None]
    /\ UNCHANGED <<disk, savePc, pending, snap, interrupted, pipe, peers, finVars, orchVars, runVars>>

\* save(), lines 73-104: makedirs, the schema check, open(state_path, "w").
\* Opening for writing truncates the file.
SaveOpen(mkdir_ok, open_ok) ==
    /\ Call
    /\ savePc = "idle"
    /\ mem # NoInstance
    /\ LET path == save_path(mem)
           exc == IF ~mkdir_ok THEN "FileSystemError"
                  ELSE IF ~ADWStateData_valid(mem.data) THEN "StateError"
                  ELSE IF ~open_ok THEN "FileSystemError"
                  ELSE None
       IN IF exc # None
          THEN /\ lastOp' = [op |-> "save", kwargs |-> NoKwargs, id |-> path, result |-> NoInstance, raised |-> exc]
               /\ UNCHANGED <<disk, savePc, pending, snap, interrupted>>
          ELSE /\ disk' = [disk EXCEPT ![path] = Truncated]
               /\ savePc' = "writing"
               /\ pending' = [on |-> TRUE, path |-> path, old |-> disk[path],
                              new |-> save_document(mem)]
               /\ snap' = [snap EXCEPT ![path] = NoSnap]
               /\ UNCHANGED <<interrupted, lastOp>>
    /\ UNCHANGED <<mem, pipe, peers, finVars, orchVars, runVars>>

\* save(), lines 105-116: json.dump writes the document and the file is closed,
\* or the write raises OSError and the file keeps what was written so far.
SaveWrite(write_ok) ==
    /\ savePc = "writing"
    /\ savePc' = "idle"
    /\ pending' = NoSave
    /\ IF write_ok
       THEN /\ disk' = [disk EXCEPT ![pending.path] = pending.new]
            /\ snap' = [snap EXCEPT ![pending.path] = [ok |-> TRUE, data |-> mem.data]]
            /\ interrupted' = [interrupted EXCEPT ![pending.path] = NoSave]
            /\ lastOp' = [op |-> "save", kwargs |-> NoKwargs, id |-> pending.path, result |-> NoInstance, raised |-> None]
       ELSE /\ interrupted' = [interrupted EXCEPT ![pending.path] = pending]
            /\ lastOp' = [op |-> "save", kwargs |-> NoKwargs, id |-> pending.path, result |-> NoInstance,
                          raised |-> "FileSystemError"]
            /\ UNCHANGED <<disk, snap>>
    /\ UNCHANGED <<mem, ops, pipe, peers, finVars, orchVars, runVars>>

\* The phase process dies (kill, power loss); a new process starts with no instance.
Crash ==
    /\ mem # NoInstance
    /\ mem' = NoInstance
    /\ savePc' = "idle"
    /\ pending' = NoSave
    /\ interrupted' = IF savePc = "writing"
                      THEN [interrupted EXCEPT ![pending.path] = pending]
                      ELSE interrupted
    /\ lastOp' = [op |-> "crash", kwargs |-> NoKwargs, id |-> mem.adw_id, result |-> NoInstance, raised |-> None]
    /\ UNCHANGED <<disk, snap, ops, pipe, peers, finVars, orchVars, runVars>>

\* state = ADWState.load(adw_id)
Load(adw_id) ==
    /\ Call
    /\ savePc = "idle"
    /\ LET r == load(disk[adw_id])
       IN /\ mem' = IF r.result # NoInstance THEN r.result ELSE mem
          /\ lastOp' = [op |-> "load", kwargs |-> NoKwargs, id |-> adw_id, result |-> r.result, raised |-> r.raised]
    /\ UNCHANGED <<disk, savePc, pending, snap, interrupted, pipe, peers, finVars, orchVars, runVars>>

\* update(**kwargs): one key, or a whitelisted key together with an unknown one
Kwargs ==
    LET Keys == core_fields \cup UnknownKeys
        KeySets == {{k} : k \in Keys} \cup {{"branch_name", u} : u \in UnknownKeys}
    IN UNION {{kw \in [ks -> UNION {FieldValues(k) : k \in ks}] :
                  \A k \in ks : kw[k] \in FieldValues(k)} : ks \in KeySets}

NextStore ==
    \/ \E adw_id \in {"", "A"} : Create(adw_id)
    \/ \E kwargs \in Kwargs : Update(kwargs)
    \/ \E mkdir_ok \in BOOLEAN, open_ok \in BOOLEAN : SaveOpen(mkdir_ok, open_ok)
    \/ \E write_ok \in BOOLEAN : SaveWrite(write_ok)
    \/ Crash
    \/ \E adw_id \in Ids : Load(adw_id)

\* Files found at start: none, or one left by an earlier run or another tool.
InitDocuments ==
    {Absent, Truncated, Garbage, NonObject,
     Document(json_dump([NoData EXCEPT !["branch_name"] = "feature/x"])),
     Document(json_dump([NoData EXCEPT !["adw_id"] = ""])),
     Document(json_dump([NoData EXCEPT !["adw_id"] = "A", !["issue_number"] = "7"]))}

InitStore ==
    /\ IdleFin
    /\ IdleRun
    /\ IdleOrch
    /\ mem = NoInstance
    /\ disk \in [Ids -> InitDocuments]
    /\ disk["B"] = Absent
    /\ savePc = "idle"
    /\ pending = NoSave
    /\ snap = [i \in Ids |-> NoSnap]
    /\ interrupted = [i \in Ids |-> NoSave]
    /\ lastOp = NoOp
    /\ ops = 0
    /\ pipe = Tty
    /\ peers = [p \in PeerProcs |-> NoPeer]

SpecStore == InitStore /\ [][NextStore]_vars

\* ---------------------------------------------------------------------------
\* State handed to the next script through the pipe
\* ---------------------------------------------------------------------------

\* A JSON object on the pipe: the five fields and the members under other keys
PipeDocument(body, extra) == [kind |-> "object", body |-> body, extra |-> extra]

\* to_stdout, lines 195-205: the document printed
to_stdout(state) ==
    PipeDocument([f \in core_fields |-> json_encode(get(state, f))], NoExtra)

\* The exception raised inside the try block of from_stdin (lines 179-188)
from_stdin_exception(doc) ==
    CASE doc.kind = "garbage" -> "JSONDecodeError"
      [] doc.kind = "list" -> "AttributeError"
      [] OTHER -> None

\* from_stdin, lines 167-193: the returned instance (NoInstance for None) and
\* the exception that leaves the call. Both except clauses return None.
from_stdin(doc) ==
    LET adw_id == json_decode(doc.body["adw_id"])
    IN IF doc.kind \in {"tty", "empty"} \/ from_stdin_exception(doc) # None
          \/ adw_id = None \/ adw_id = ""
       THEN [result |-> NoInstance, raised |-> None]
       ELSE [result |-> [adw_id |-> adw_id,
                         data |-> [f \in core_fields |-> json_decode(doc.body[f])],
                         extra |-> [k \in DOMAIN doc.extra |-> json_decode(doc.extra[k])]],
             raised |-> None]

\* state.to_stdout()
ToStdout ==
    /\ mem # NoInstance
    /\ pipe' = to_stdout(mem)
    /\ lastOp' = [op |-> "to_stdout", kwargs |-> NoKwargs, id |-> mem.adw_id,
                  result |-> NoInstance, raised |-> None]
    /\ UNCHANGED <<mem, disk, savePc, pending, snap, interrupted, ops, peers, finVars, orchVars, runVars>>

\* state = ADWState.from_stdin(): the process goes on with the instance read,
\* or with the one it has when None is returned
FromStdin ==
    /\ LET r == from_stdin(pipe)
       IN /\ mem' = IF r.result # NoInstance THEN r.result ELSE mem
          /\ lastOp' = [op |-> "from_stdin", kwargs |-> NoKwargs, id |-> r.result.adw_id,
                        result |-> r.result, raised |-> r.raised]
    /\ UNCHANGED <<disk, savePc, pending, snap, interrupted, ops, pipe, peers, finVars, orchVars, runVars>>

\* Another program writes to the pipe
PipeInput(doc) ==
    /\ pipe' = doc
    /\ UNCHANGED <<mem, disk, savePc, pending, snap, interrupted, ops, lastOp,
                   peers, finVars, orchVars, runVars>>

\* The data of an instance built by ADWState(adw_id) and update() calls that
\* leave the workflow id alone
StateData(adw_id) ==
    {d \in [core_fields -> {None, "7", "feature/x", "specs/plan.md", "/feature", adw_id}] :
        /\ d["adw_id"] = adw_id
        /\ \A f \in core_fields \ {"adw_id"} : d[f] \in FieldValues(f)}

\* What stdin can hold: a terminal, nothing, text that is no JSON, a JSON
\* list, or an object with or without a member outside the whitelist
PipeDocuments ==
    {Tty,
     [kind |-> "empty", body |-> NullBody, extra |-> NoExtra],
     [kind |-> "garbage", body |-> NullBody, extra |-> NoExtra],
     [kind |-> "list", body |-> NullBody, extra |-> NoExtra]}
    \cup {PipeDocument(json_dump(d), e) :
            d \in StateData("A") \cup {NoData, [NoData EXCEPT !["adw_id"] = ""]},
            e \in {NoExtra, [k \in UnknownKeys |-> json_encode("initialized")]}}

NextPipe ==
    \/ ToStdout
    \/ FromStdin
    \/ \E doc \in PipeDocuments : PipeInput(doc)

InitPipe ==
    /\ IdleFin
    /\ IdleRun
    /\ IdleOrch
    /\ mem \in {[adw_id |-> "B", data |-> d, extra |-> NoExtra] : d \in StateData("B")}
    /\ disk = [i \in Ids |-> Absent]
    /\ savePc = "idle"
    /\ pending = NoSave
    /\ snap = [i \in Ids |-> NoSnap]
    /\ interrupted = [i \in Ids |-> NoSave]
    /\ lastOp = NoOp
    /\ ops = 0
    /\ pipe = Tty
    /\ peers = [p \in PeerProcs |-> NoPeer]

SpecPipe == InitPipe /\ [][NextPipe]_vars

\* ---------------------------------------------------------------------------
\* Two phase processes of run_parallel share the state file of one workflow
\* ---------------------------------------------------------------------------

\* adw_sdlc.run_parallel passes the same adw_id to every phase it starts
SharedId == "A"

\* The fields a phase may update (every whitelisted field but the id)
PeerFields == core_fields \ {"adw_id"}

\* The value a phase writes to a field
PeerValue(f) == CHOOSE v \in FieldValues(f) : v # None

\* state = ADWState.load(adw_id); a phase that finds no state exits
\* (adw_build.py, lines 336-350)
PeerLoad(p) ==
    /\ peers[p].pc = "start"
    /\ LET r == load(disk[SharedId])
       IN peers' = [peers EXCEPT ![p].mem = r.result,
                                 ![p].raised = r.raised,
                                 ![p].pc = IF r.result # NoInstance THEN "loaded" ELSE "failed"]
    /\ UNCHANGED <<mem, disk, savePc, pending, snap, interrupted, lastOp, ops, pipe,
                   finVars, orchVars, runVars>>

\* state.update(<field>=<value>) (adw_build.py, line 450)
PeerUpdate(p, f) ==
    /\ peers[p].pc = "loaded"
    /\ peers' = [peers EXCEPT ![p].mem = update(@, [k \in {f} |-> PeerValue(f)]),
                              ![p].field = f,
                              ![p].value = PeerValue(f),
                              ![p].pc = "updated"]
    /\ UNCHANGED <<mem, disk, savePc, pending, snap, interrupted, lastOp, ops, pipe,
                   finVars, orchVars, runVars>>

\* state.save(): makedirs, the schema check, open(state_path, "w"), which
\* truncates the file (state.py, lines 73-104)
PeerSaveOpen(p, open_ok) ==
    /\ peers[p].pc = "updated"
    /\ LET exc == IF ~ADWStateData_valid(peers[p].mem.data) THEN "StateError"
                  ELSE IF ~open_ok THEN "FileSystemError"
                  ELSE None
       IN IF exc # None
          THEN /\ peers' = [peers EXCEPT ![p].pc = "failed", ![p].raised = exc]
               /\ UNCHANGED disk
          ELSE /\ peers' = [peers EXCEPT ![p].pc = "writing"]
               /\ disk' = [disk EXCEPT ![save_path(peers[p].mem)] = Truncated]
    /\ UNCHANGED <<mem, savePc, pending, snap, interrupted, lastOp, ops, pipe,
                   finVars, orchVars, runVars>>

\* json.dump of one value: the number of characters written (null; a string
\* with its two quotes)
json_len(v) ==
    CASE v = None -> 4
      [] v \in {"A", "B", "7"} -> 3
      [] v = "feature/x" -> 11
      [] v = "specs/plan.md" -> 15
      [] v = "/feature" -> 10
      [] OTHER -> 2

\* The length of a written document, up to the part every document shares
\* (braces, keys, indentation)
doc_len(doc) ==
    json_len(json_decode(doc.body["adw_id"]))
    + json_len(json_decode(doc.body["issue_number"]))
    + json_len(json_decode(doc.body["branch_name"]))
    + json_len(json_decode(doc.body["plan_file"]))
    + json_len(json_decode(doc.body["issue_class"]))

\* What the file holds after `new` is written at offset 0 over `old`: the
\* bytes of old beyond the end of new stay in the file
write_over(old, new) ==
    IF old.kind \in {"absent", "truncated"} \/ doc_len(new) >= doc_len(old)
    THEN new
    ELSE Garbage

\* state.save(): json.dump and close write the document at offset 0 of the
\* file opened before (state.py, lines 105-106); the file holds more than
\* nothing when the other process has written it since it was opened.
PeerSaveWrite(p) ==
    /\ peers[p].pc = "writing"
    /\ disk' = [disk EXCEPT ![save_path(peers[p].mem)] =
                    write_over(@, save_document(peers[p].mem))]
    /\ peers' = [peers EXCEPT ![p].pc = "done"]
    /\ UNCHANGED <<mem, savePc, pending, snap, interrupted, lastOp, ops, pipe,
                   finVars, orchVars, runVars>>

NextPeers ==
    \/ \E p \in PeerProcs : PeerLoad(p)
    \/ \E p \in PeerProcs, f \in PeerFields : PeerUpdate(p, f)
    \/ \E p \in PeerProcs, open_ok \in BOOLEAN : PeerSaveOpen(p, open_ok)
    \/ \E p \in PeerProcs : PeerSaveWrite(p)

\* The plan and build phases have saved the state of the workflow.
InitPeers ==
    /\ IdleFin
    /\ IdleRun
    /\ IdleOrch
    /\ mem = NoInstance
    /\ disk = [i \in Ids |-> IF i = SharedId
                              THEN Document(json_dump([NoData EXCEPT !["adw_id"] = SharedId,
                                                                     !["issue_number"] = "7"]))
                              ELSE Absent]
    /\ savePc = "idle"
    /\ pending = NoSave
    /\ snap = [i \in Ids |-> NoSnap]
    /\ interrupted = [i \in Ids |-> NoSave]
    /\ lastOp = NoOp
    /\ ops = 0
    /\ pipe = Tty
    /\ peers = [p \in PeerProcs |-> NoPeer]

SpecPeers == InitPeers /\ [][NextPeers]_vars

\* ===========================================================================
\* Run lifecycle tracker (agents/run_manager.py, adws/adw_common.py)
\* ===========================================================================

\* Text is a sequence of characters.
Letters == {"a", "b"}
Whitespace == {" "}

lower_char(c) == CASE c = "A" -> "a" [] c = "B" -> "b" [] OTHER -> c

\* str.lower()
lower(text) == [i \in 1..Len(text) |-> lower_char(text[i])]

RECURSIVE lstrip(_, _)
lstrip(text, chars) ==
    IF text # <<>> /\ Head(text) \in chars THEN lstrip(Tail(text), chars) ELSE text

RECURSIVE rstrip(_, _)
rstrip(text, chars) ==
    IF text # <<>> /\ text[Len(text)] \in chars
    THEN rstrip(SubSeq(text, 1, Len(text) - 1), chars) ELSE text

\* str.strip() / str.strip(chars)
strip(text, chars) == rstrip(lstrip(text, chars), chars)

\* re.sub(r"[^a-z0-9]+", "-", text): every maximal run of other characters
\* becomes one "-"
RECURSIVE sub_non_alnum(_, _)
sub_non_alnum(text, in_run) ==
    IF text = <<>> THEN <<>>
    ELSE IF Head(text) \in Letters THEN <<Head(text)>> \o sub_non_alnum(Tail(text), FALSE)
    ELSE IF in_run THEN sub_non_alnum(Tail(text), TRUE)
    ELSE <<"-">> \o sub_non_alnum(Tail(text), TRUE)

\* re.sub(r"-+", "-", text)
RECURSIVE collapse_dashes(_, _)
collapse_dashes(text, in_run) ==
    IF text = <<>> THEN <<>>
    ELSE IF Head(text) # "-" THEN <<Head(text)>> \o collapse_dashes(Tail(text), FALSE)
    ELSE IF in_run THEN collapse_dashes(Tail(text), TRUE)
    ELSE <<"-">> \o collapse_dashes(Tail(text), TRUE)

\* adw_common.slugify
slugify(text) ==
    strip(collapse_dashes(sub_non_alnum(strip(lower(text), Whitespace), FALSE), FALSE), {"-"})

\* text[:n]
Take(text, n) == SubSeq(text, 1, IF Len(text) < n THEN Len(text) ELSE n)

SlugTypeLen == 20
SlugNameLen == 10

\* datetime.now().strftime("%m%d") and secrets.token_hex(2), as one token each
date_part(day) == "day" \o ToString(day)
hash_part(h) == "hex" \o ToString(h)

\* adw_common.generate_run_id: f"{date_part}-{slug_part}-{hash_part}"
generate_run_id(task_type, task_name, day, h) ==
    LET slug == Take(slugify(task_type), SlugTypeLen)
        slug_part == IF task_name # <<>>
                     THEN slug \o <<"-">> \o Take(slugify(task_name), SlugNameLen)
                     ELSE slug
    IN <<date_part(day)>> \o <<"-">> \o slug_part \o <<"-">> \o <<hash_part(h)>>

\* RunManager.start, lines 175-207: the run directory is made if it is not
\* there (mkdir exist_ok), meta.yaml and state.json are written over whatever
\* is there, and the latest symlink is replaced. The caller keeps the returned
\* instance in the variable who.
Start(who, task_type, task_description, parent_run_id, h) ==
    /\ Len(startSeq) < MaxStarts
    /\ LET run_id == generate_run_id(task_type, task_description, today, h)
           dir == [meta |-> [run_id |-> run_id, task_type |-> task_type,
                             task_description |-> task_description,
                             started_at |-> today, parent_run_id |-> parent_run_id],
                   state |-> InitialRunState]
       IN /\ runs' = [r \in DOMAIN runs \cup {run_id} |-> IF r = run_id THEN dir ELSE runs[r]]
          /\ latest' = run_id
          /\ startSeq' = Append(startSeq, run_id)
          /\ handle' = [handle EXCEPT ![who] = [run_id |-> run_id, state |-> InitialRunState]]
          /\ asked' = [r \in DOMAIN asked \cup {run_id} |->
                          IF r \in DOMAIN asked THEN asked[r] ELSE {}]
    /\ UNCHANGED <<today, runOps, linkVars, finVars, orchVars, storeVars>>

\* Midnight passes.
Tick ==
    /\ today < MaxDay
    /\ today' = today + 1
    /\ UNCHANGED <<runs, latest, startSeq, handle, runOps, asked, linkVars, finVars, orchVars, storeVars>>

TaskTypes == {<<"a">>, <<"A", " ">>, <<"a", "-", "b">>}
Descriptions == {<<>>, <<"B", "!">>}

NextRun ==
    \/ \E task_type \in TaskTypes, task_description \in Descriptions, h \in 1..HashSpace :
         \E parent_run_id \in {NoRun, latest} :
            Start("h1", task_type, task_description, parent_run_id, h)
    \/ Tick

InitRun ==
    /\ IdleFin
    /\ IdleOrch
    /\ IdleStore
    /\ IdleRun

SpecRun == InitRun /\ [][NextRun]_vars

\* ---------------------------------------------------------------------------
\* Run lifecycle: the calls made on RunManager instances
\* ---------------------------------------------------------------------------

MaxRunOps == 4
MaxLifeStarts == 2

\* class RunState(Enum), lines 47-53
RunState == {"ACTIVE", "DONE", "CRASHED", "STALLED", "CANCELLED"}

\* datetime.now().isoformat(), read to the day
now == date_part(today)

\* update_state, lines 288-295, on the instance's state; args holds the
\* arguments that are not None
update_state(state, args) ==
    [state EXCEPT !.status = IF "status" \in DOMAIN args THEN args.status ELSE @,
                  !.progress = IF "progress" \in DOMAIN args THEN args.progress ELSE @,
                  !.error = IF "error" \in DOMAIN args THEN args.error ELSE @,
                  !.last_heartbeat = now]

\* heartbeat, line 300
heartbeat(state) == [state EXCEPT !.last_heartbeat = now]

\* complete, lines 305-309
complete(state, output_path) ==
    [state EXCEPT !.status = "DONE",
                  !.progress = 100,
                  !.completed_at = now,
                  !.output_path = IF output_path # None THEN output_path ELSE @]

\* fail that marks the run STALLED
fail_mut(state, error) ==
    [state EXCEPT !.status = "STALLED", !.error = error, !.completed_at = now]

\* fail, lines 314-316
fail(state, error) ==
    [state EXCEPT !.status = "CRASHED", !.error = error, !.completed_at = now]

\* add_artifact, line 323
add_artifact(state, name) == [state EXCEPT !.artifacts = Append(@, name)]

\* _write_state, lines 354-356: state.json is rewritten from the whole
\* in-memory state of the instance
_write_state(h, state) ==
    /\ handle' = [handle EXCEPT ![h].state = state]
    /\ runs' = [runs EXCEPT ![handle[h].run_id].state = state]

\* The calls made on the tracker so far: start() and the others (the model
\* follows MaxRunOps calls)
TrackerCalls == runOps + Len(startSeq)

\* A method is called on the instance held in h
RunCall(h) ==
    /\ TrackerCalls < MaxRunOps
    /\ runOps' = runOps + 1
    /\ handle[h] # NoHandle

\* RunManager.load, lines 209-259: None when the run directory or one of its
\* files is missing, else an instance with the persisted state
LoadRun(h, run_id) ==
    /\ TrackerCalls < MaxRunOps
    /\ runOps' = runOps + 1
    /\ handle' = [handle EXCEPT ![h] =
                     IF run_id \in DOMAIN runs
                     THEN [run_id |-> run_id, state |-> runs[run_id].state]
                     ELSE NoHandle]
    /\ UNCHANGED <<today, runs, latest, startSeq, asked, linkVars, finVars, orchVars, storeVars>>

UpdateState(h, args) ==
    /\ RunCall(h)
    /\ _write_state(h, update_state(handle[h].state, args))
    /\ asked' = [asked EXCEPT ![handle[h].run_id] =
                    IF "status" \in DOMAIN args THEN @ \cup {args.status} ELSE @]
    /\ UNCHANGED <<today, latest, startSeq, linkVars, finVars, orchVars, storeVars>>

Heartbeat(h) ==
    /\ RunCall(h)
    /\ _write_state(h, heartbeat(handle[h].state))
    /\ UNCHANGED <<today, latest, startSeq, asked, linkVars, finVars, orchVars, storeVars>>

Complete(h, output_path) ==
    /\ RunCall(h)
    /\ _write_state(h, complete(handle[h].state, output_path))
    /\ UNCHANGED <<today, latest, startSeq, asked, linkVars, finVars, orchVars, storeVars>>

Fail(h, error) ==
    /\ RunCall(h)
    /\ _write_state(h, fail(handle[h].state, error))
    /\ UNCHANGED <<today, latest, startSeq, asked, linkVars, finVars, orchVars, storeVars>>

AddArtifact(h, name) ==
    /\ RunCall(h)
    /\ _write_state(h, add_artifact(handle[h].state, name))
    /\ UNCHANGED <<today, latest, startSeq, asked, linkVars, finVars, orchVars, storeVars>>

\* update_state(status=...), update_state(progress=50), update_state(error="e")
UpdateArgs ==
    {[status |-> st] : st \in RunState} \cup {[progress |-> 50], [error |-> "e"]}

NextLife ==
    \/ \E h \in 1..HashSpace :
          /\ Len(startSeq) < MaxLifeStarts
          /\ TrackerCalls < MaxRunOps
          /\ Start("h1", <<"a">>, <<>>, NoRun, h)
    \/ Tick
    \/ \E run_id \in DOMAIN runs \cup {NoRun} : LoadRun("h2", run_id)
    \/ \E h \in Handles, args \in UpdateArgs : UpdateState(h, args)
    \/ \E h \in Handles : Heartbeat(h)
    \/ \E h \in Handles, output_path \in {None, "out.json"} : Complete(h, output_path)
    \/ \E h \in Handles : Fail(h, "e")
    \/ \E h \in Handles : AddArtifact(h, "f")

SpecLife == InitRun /\ [][NextLife]_vars

\* ---------------------------------------------------------------------------
\* start() called by concurrent processes, followed at the grain of its
\* file-system calls
\* ---------------------------------------------------------------------------

\* The run directory as start() writes it (lines 182-204)
new_run_dir(run_id, task_type, task_description, parent_run_id) ==
    [meta |-> [run_id |-> run_id, task_type |-> task_type,
               task_description |-> task_description,
               started_at |-> today, parent_run_id |-> parent_run_id],
     state |-> InitialRunState]

\* start(), lines 175-204: the id is generated and the run directory, meta.yaml
\* and state.json are written
StartWrite(p, task_type, task_description, h) ==
    /\ startPc[p] = "idle"
    /\ Len(startSeq) < MaxStarts
    /\ LET run_id == generate_run_id(task_type, task_description, today, h)
       IN /\ runs' = [r \in DOMAIN runs \cup {run_id} |->
                         IF r = run_id
                         THEN new_run_dir(run_id, task_type, task_description, NoRun)
                         ELSE runs[r]]
          /\ startSeq' = Append(startSeq, run_id)
          /\ asked' = [r \in DOMAIN asked \cup {run_id} |->
                          IF r \in DOMAIN asked THEN asked[r] ELSE {}]
          /\ startRun' = [startRun EXCEPT ![p] = run_id]
    /\ startPc' = [startPc EXCEPT ![p] = "check"]
    /\ startErr' = [startErr EXCEPT ![p] = None]
    /\ UNCHANGED <<today, latest, handle, runOps, finVars, orchVars, storeVars>>

\* _update_latest_symlink, line 361: latest_link.is_symlink()
LinkCheck(p) ==
    /\ startPc[p] = "check"
    /\ startPc' = [startPc EXCEPT ![p] = IF latest # NoRun THEN "unlink" ELSE "symlink"]
    /\ UNCHANGED <<today, runs, latest, startSeq, handle, runOps, asked, startRun, startErr,
                   finVars, orchVars, storeVars>>

\* The exception that ends start() in process p
StartRaises(p, exc) ==
    /\ startPc' = [startPc EXCEPT ![p] = "idle"]
    /\ startErr' = [startErr EXCEPT ![p] = exc]
    /\ startRun' = [startRun EXCEPT ![p] = NoRun]
    /\ UNCHANGED <<latest, handle>>

\* line 362: latest_link.unlink() raises FileNotFoundError when the link is gone
LinkUnlink(p) ==
    /\ startPc[p] = "unlink"
    /\ IF latest = NoRun
       THEN StartRaises(p, "FileNotFoundError")
       ELSE /\ latest' = NoRun
            /\ startPc' = [startPc EXCEPT ![p] = "symlink"]
            /\ UNCHANGED <<handle, startRun, startErr>>
    /\ UNCHANGED <<today, runs, startSeq, runOps, asked, finVars, orchVars, storeVars>>

\* line 371: latest_link.symlink_to(run_id) raises FileExistsError when the
\* link is there; otherwise start() returns the instance (line 207)
LinkCreate(p) ==
    /\ startPc[p] = "symlink"
    /\ IF latest # NoRun
       THEN StartRaises(p, "FileExistsError")
       ELSE /\ latest' = startRun[p]
            /\ handle' = [handle EXCEPT ![p] = [run_id |-> startRun[p], state |-> InitialRunState]]
            /\ startPc' = [startPc EXCEPT ![p] = "idle"]
            /\ startRun' = [startRun EXCEPT ![p] = NoRun]
            /\ UNCHANGED startErr
    /\ UNCHANGED <<today, runs, startSeq, runOps, asked, finVars, orchVars, storeVars>>

\* get_latest_run, lines 380-386: the run_id of the instance it returns
get_latest_run == IF latest # NoRun /\ latest \in DOMAIN runs THEN latest ELSE NoRun

NextLatest ==
    \/ \E p \in Handles, h \in 1..HashSpace : StartWrite(p, <<"a">>, <<>>, h)
    \/ \E p \in Handles : LinkCheck(p)
    \/ \E p \in Handles : LinkUnlink(p)
    \/ \E p \in Handles : LinkCreate(p)

SpecLatest == InitRun /\ [][NextLatest]_vars

\* ---------------------------------------------------------------------------
\* Listing the runs
\* ---------------------------------------------------------------------------

\* The name of the symlink _update_latest_symlink creates in AGENT_RUNS_DIR
LatestName == <<"latest">>

\* AGENT_RUNS_DIR.iterdir(): the run directories and the latest symlink
iterdir == DOMAIN runs \cup (IF latest # NoRun THEN {LatestName} ELSE {})

\* The directory a path names: a symlink is followed
resolve(item) == IF item = LatestName THEN latest ELSE item

\* Path.is_dir(): true of a directory and of a symlink to one
is_dir(item) == resolve(item) \in DOMAIN runs

\* RunManager.list_runs(status), lines 261-279: the names it returns (sorted
\* in descending order; each name of the directory appears once)
list_runs(status) ==
    {item \in iterdir :
        /\ is_dir(item)
        /\ status # None => runs[resolve(item)].state.status = status}

\* ===========================================================================
\* Properties
\* ===========================================================================

\* C1: running finalize any number of times for the same branch, on either
\* provider and whatever the lookups answer, creates at most one change
\* request for the branch.
C1_AtMostOneCreated == created <= 1

\* C7: when the lookup of an existing change request itself fails (provider or
\* transport error), create_pull_request is not invoked in that finalize call,
\* on GitHub and on Bitbucket.
C7_LookupFailedNoCreate ==
    (fin.pushed /\ Outcome(fin.answer) = "LookupFailed") => ~fin.createInvoked

AllExited(ps) == \A p \in ps : child[p].st = "exited"
AllZero(ps) == \A p \in ps : child[p].st = "exited" /\ child[p].rc = 0
GitCommands == [i \in 1..Len(gitOps) |-> gitOps[i].cmd]

\* C2: in concurrent mode the orchestrator runs git add / commit / push iff
\* test, review and document all exited 0; if any of them exits non-zero it
\* runs no git command and exits non-zero.
C2_AggregatedCommitIffAllZero ==
    parallel =>
        /\ gitOps # <<>> => AllZero(ParallelPhases)
        /\ (pc = "exited" /\ AllExited(ParallelPhases)) =>
              IF AllZero(ParallelPhases)
              THEN GitCommands = <<"add", "commit", "push">> /\ orchExit = 0
              ELSE gitOps = <<>> /\ orchExit = 1

\* Concurrent mode ended with exactly the review phase failed: no git command ran.
C2_Witness ==
    /\ parallel
    /\ pc = "exited"
    /\ AllExited(ParallelPhases)
    /\ child["test"].rc = 0
    /\ child["review"].rc = 1
    /\ child["document"].rc = 0
    /\ gitOps = <<>>
    /\ orchExit = 1

\* C3: in sequential mode the phases start in the order plan, build, test,
\* review, document, each after the previous one exited (with 0), so at most
\* one runs at a time; after a phase exits non-zero no later phase is started
\* and the orchestrator exits non-zero.
C3_SequentialHaltsAtFirstFailure ==
    ~parallel =>
        /\ \A i \in 1..Len(started) : started[i] = PhaseOrder[i]
        /\ Cardinality({p \in Phases : child[p].st = "running"}) <= 1
        /\ \A i \in 1..(Len(started) - 1) :
              child[started[i]].st = "exited" /\ child[started[i]].rc = 0
        /\ \A p \in Phases :
              (child[p].st = "exited" /\ child[p].rc # 0) =>
                  /\ pc \in {"wait_" \o p, "exited"}
                  /\ pc = "exited" => orchExit = 1

\* Sequential mode: test was killed by a signal; review and document never started.
C3_Witness ==
    /\ ~parallel
    /\ pc = "exited"
    /\ started = <<"plan", "build", "test">>
    /\ child["test"].st = "exited"
    /\ child["test"].rc = -15
    /\ child["review"].st = "none"
    /\ orchExit = 1

\* C4: a load(workflow_id) that follows a completed save() to that id returns
\* a state equal to the saved one on all five whitelisted fields (set fields
\* keep their value, unset fields are unset).
C4_RoundTrip ==
    (lastOp.op = "load" /\ snap[lastOp.id].ok) =>
        /\ lastOp.result # NoInstance
        /\ \A f \in core_fields : get(lastOp.result, f) = snap[lastOp.id].data[f]

\* create("A"), update(branch_name="feature/x"), save, load("A"):
\* branch_name is back and issue_number is unset.
C4_Witness ==
    /\ lastOp.op = "load"
    /\ lastOp.id = "A"
    /\ snap["A"].ok
    /\ disk["A"] = Document(json_dump([NoData EXCEPT !["adw_id"] = "A", !["branch_name"] = "feature/x"]))
    /\ get(lastOp.result, "branch_name") = "feature/x"
    /\ get(lastOp.result, "issue_number") = None

\* The file content load() cannot build a state from
Malformed(content) ==
    \/ content.kind \in {"absent", "truncated", "garbage", "list"}
    \/ content.body["adw_id"] \in {<<"null">>, <<"str", "">>}

\* C5: load(workflow_id) never raises; for an absent, unparseable or invalid
\* file (missing or empty workflow_id included) it returns None, and it leaves
\* the file as it was.
C5_LoadNeverRaises ==
    [][(ops' # ops /\ savePc' = "idle" /\ lastOp'.op = "load") =>
          /\ lastOp'.raised = None
          /\ disk' = disk
          /\ Malformed(disk[lastOp'.id]) => lastOp'.result = NoInstance]_vars

\* load() of a file that parses but has no workflow_id returned None.
C5_Witness ==
    /\ lastOp.op = "load"
    /\ disk[lastOp.id].kind = "object"
    /\ disk[lastOp.id].body["adw_id"] = <<"null">>
    /\ lastOp.result = NoInstance
    /\ lastOp.raised = None

\* C9: if the process crashes or a write fails during save(), a later load()
\* of that id returns the previously saved state or the new one in full
\* (here: whenever the file held a loadable state before that save).
C9_SaveAtomic ==
    (/\ lastOp.op = "load"
     /\ interrupted[lastOp.id].on
     /\ load(interrupted[lastOp.id].old).result # NoInstance) =>
        /\ lastOp.result # NoInstance
        /\ Document(json_dump(lastOp.result.data)) \in
              {interrupted[lastOp.id].old, interrupted[lastOp.id].new}

\* C10: the workflow_id held by a state never differs from the id it was
\* created or loaded under, and load(id) never returns a state with another id.
C10_WorkflowIdImmutable ==
    /\ mem # NoInstance => mem.data["adw_id"] = mem.adw_id
    /\ (lastOp.op = "load" /\ lastOp.result # NoInstance) => lastOp.result.adw_id = lastOp.id

\* C6: the run_ids returned by N calls of RunManager.start() are pairwise distinct.
C6_DistinctRunIds ==
    \A i, j \in 1..Len(startSeq) : i # j => startSeq[i] # startSeq[j]


\* ---------------------------------------------------------------------------
\* C24: in concurrent mode test, review and document are started only after
\* build has exited 0, all three are started before the orchestrator waits on
\* any of them, each is started with the skip-commit flag, and the aggregated
\* commit is never started while one of the three is still running.
C24_ParallelStartAndCommit ==
    parallel =>
        /\ \A p \in ParallelPhases : child[p].st # "none" =>
              /\ child["build"].st = "exited"
              /\ child["build"].rc = 0
              /\ "--no-commit" \in child[p].flags
        /\ pc \in {"pwait_test", "pwait_review", "pwait_document"} =>
              \A p \in ParallelPhases : child[p].st # "none"
        /\ (pc \in {"git_add", "git_commit", "git_push"} \/ gitOps # <<>>) =>
              \A p \in ParallelPhases : child[p].st = "exited"

C24_Witness ==
    /\ parallel
    /\ pc = "pwait_test"
    /\ \A p \in ParallelPhases : child[p].st = "running"

\* C22: creating a state with an empty or missing workflow id fails with a
\* validation error naming the id field and changes neither the disk nor the
\* instance; otherwise the new state holds the workflow id and every other
\* whitelisted field is unset, and nothing is written to disk.
C22_CreateValidatesId ==
    [][\A id \in IdValues : Create(id) =>
          /\ disk' = disk
          /\ IF id = None \/ id = ""
             THEN /\ lastOp'.raised = "ValidationError"
                  /\ ADWState(id).field = "adw_id"
                  /\ lastOp'.result = NoInstance
                  /\ mem' = mem
             ELSE /\ lastOp'.raised = None
                  /\ mem' = lastOp'.result
                  /\ mem'.adw_id = id
                  /\ mem'.data["adw_id"] = id
                  /\ \A f \in core_fields \ {"adw_id"} : mem'.data[f] = None
                  /\ DOMAIN mem'.extra = {}]_vars

C22_Witness ==
    /\ lastOp.op = "create"
    /\ lastOp.id = ""
    /\ lastOp.raised = "ValidationError"
    /\ mem # NoInstance

\* C11: update(fields) merges only the five whitelisted attributes: a key
\* outside the whitelist is not stored and changes no existing field, the call
\* raises nothing, and the whitelisted keys of the same call are applied.
C11_UpdateIgnoresUnknownKeys ==
    [][\A kwargs \in Kwargs : Update(kwargs) =>
          /\ lastOp'.raised = None
          /\ mem'.adw_id = mem.adw_id
          /\ mem'.extra = mem.extra
          /\ DOMAIN mem'.extra \cap DOMAIN kwargs = {}
          /\ \A f \in core_fields :
                mem'.data[f] = IF f \in DOMAIN kwargs THEN kwargs[f] ELSE mem.data[f]]_vars

\* update(branch_name=..., status=...) was called: the branch is stored, the
\* status key is not
C11_Witness ==
    /\ lastOp.op = "update"
    /\ DOMAIN lastOp.kwargs = {"branch_name", "status"}
    /\ mem.data["branch_name"] = "feature/x"
    /\ get(mem, "status") = None

\* ---------------------------------------------------------------------------
\* The terminal values of a run's status
TerminalStatus == {"DONE", "CRASHED", "CANCELLED"}

\* C12: once the persisted status of a run is DONE, CRASHED or CANCELLED, no
\* update_state, heartbeat, complete, fail or add_artifact call changes it.
C12_TerminalIsFinal ==
    [][startSeq' = startSeq =>
          \A r \in DOMAIN runs :
             runs[r].state.status \in TerminalStatus =>
                runs'[r].state.status = runs[r].state.status]_vars

FrameFields == {"status", "progress", "completed_at", "error", "output_path", "artifacts"}

\* C17: heartbeat() leaves the persisted status, progress, completed_at,
\* error, output_path and artifacts of its run as they were immediately
\* before the call, also when another instance changed the run meanwhile.
C17_HeartbeatOnlyHeartbeat ==
    [][\A h \in Handles : Heartbeat(h) =>
          \A f \in FrameFields :
             runs'[handle[h].run_id].state[f] = runs[handle[h].run_id].state[f]]_vars

\* C25: the immutable part of a run record never changes after start()
\* returned: no update_state, heartbeat, complete, fail or add_artifact on the
\* run and no later start() alters its stored run_id, task_type, description,
\* started_at or parent_run_id, and no later start() resets its mutable state.
C25_MetadataImmutable ==
    [][\A r \in DOMAIN runs :
          /\ runs'[r].meta = runs[r].meta
          /\ startSeq' # startSeq => runs'[r].state = runs[r].state]_vars

\* C27: when two concurrently running phase processes each load the same
\* workflow state, update disjoint whitelisted fields and save, the state
\* persisted after both saves contains both updates, under every interleaving.
C27_NoLostUpdate ==
    (/\ \A p \in PeerProcs : peers[p].pc = "done"
     /\ peers["review"].field # peers["document"].field) =>
        /\ load(disk[SharedId]).result # NoInstance
        /\ \A p \in PeerProcs :
              load(disk[SharedId]).result.data[peers[p].field] = peers[p].value

\* C28: list_runs(status_filter) returns exactly the run_ids created by
\* start() whose persisted status equals the filter, or all of them when no
\* filter is given, and nothing that is not a run (such as the latest pointer).
C28_ListRunsExact ==
    \A status \in RunState \cup {None} :
        list_runs(status) =
            {startSeq[i] : i \in {j \in 1..Len(startSeq) :
                                    status # None => runs[startSeq[j]].state.status = status}}

\* C29: in every reachable state of a run, completed_at is set if and only
\* if the status is terminal (DONE, CRASHED or CANCELLED).
C29_CompletedIffTerminal ==
    \A r \in DOMAIN runs :
        (runs[r].state.completed_at # None) <=> (runs[r].state.status \in TerminalStatus)

\* C30: in concurrent mode the orchestrator exits 0 only if all three phases
\* exited 0 and the aggregated git add, git commit and git push each
\* succeeded; a failed commit or push never ends in a successful pipeline.
C30_SuccessNeedsCommitAndPush ==
    (parallel /\ pc = "exited" /\ orchExit = 0) =>
        /\ AllZero(ParallelPhases)
        /\ Len(gitOps) = 3
        /\ \A i \in 1..Len(gitOps) : gitOps[i].rc = 0

\* C13: whenever no start() is in progress and a run was started, the latest
\* pointer exists and resolves to the most recently created run record, and
\* no start() has raised.
C13_LatestIsNewest ==
    ((\A p \in Handles : startPc[p] = "idle") /\ startSeq # <<>>) =>
        /\ get_latest_run = startSeq[Len(startSeq)]
        /\ \A p \in Handles : startErr[p] = None

\* C14: in concurrent mode, once the three phases are spawned and the
\* orchestrator waits for them, it always eventually finishes, whatever the
\* child processes do (a phase that never exits is terminated after a timeout).
C14_WaitForAllFinishes == (pc = "pwait_test") ~> (pc = "exited")

\* The phase that follows p in the pipeline; plan when there is no
\* checkpoint, "end" after document
phase_after(p) ==
    CASE p = None -> "plan"
      [] p = "document" -> "end"
      [] OTHER -> PhaseOrder[(CHOOSE i \in 1..Len(PhaseOrder) : PhaseOrder[i] = p) + 1]

\* C15: after a crash and a restart with the same workflow_id, the first phase
\* the orchestrator starts is the one following the last phase whose
\* checkpoint was saved.
C15_ResumesAfterCheckpoint ==
    (restarts > 0 /\ started # <<>>) => started[1] = phase_after(resumeAfter)

\* C18: a state read back from the document another state was written to
\* equals it on the five whitelisted fields; the state from_stdin produces from
\* any document holds no field outside the whitelist; from_stdin raises
\* nothing, and returns no state for a document without a workflow_id.
C18_PipeCarriesOnlyWhitelist ==
    [][FromStdin =>
          /\ lastOp'.raised = None
          /\ (pipe.kind # "object" \/ pipe.body["adw_id"] \in {json_encode(None), json_encode("")})
                => lastOp'.result = NoInstance
          /\ lastOp'.result # NoInstance => DOMAIN lastOp'.result.extra = {}
          /\ (lastOp.op = "to_stdout" /\ pipe = to_stdout(mem)) =>
                /\ lastOp'.result # NoInstance
                /\ \A f \in core_fields : get(lastOp'.result, f) = get(mem, f)]_vars

\* C19: when the change-request lookup or creation fails during a phase's
\* finalize step, the error is recorded through handle_error and the phase
\* process exits non-zero.
C19_ApiErrorAbortsPhase ==
    fin.apiError => (fin.handled /\ fin.exit # 0)

====
